---- MODULE Spec2Model ----
(***************************************************************************)
(* print_glb_header.py: read a glB file, validate the five little-endian   *)
(* u32 header fields, decode the leading JSON chunk and print it with a    *)
(* 2-space indentation.                                                    *)
(*                                                                         *)
(* Bytes and characters are integers: a byte is 0..255, a character is its *)
(* Unicode code point, a text is a sequence of code points and standard    *)
(* output is the text written so far.                                      *)
(***************************************************************************)
EXTENDS Integers, Sequences, FiniteSets, TLC

\* Code point of an ASCII character.
Ord ==
    ("[" :> 91) @@ ("]" :> 93) @@ ("{" :> 123) @@ ("}" :> 125) @@ ("\"" :> 34)
    @@ (":" :> 58) @@ ("," :> 44) @@ ("\\" :> 92) @@ ("/" :> 47) @@ ("-" :> 45)
    @@ ("+" :> 43) @@ ("." :> 46) @@ ("e" :> 101) @@ ("E" :> 69) @@ ("0" :> 48)
    @@ ("1" :> 49) @@ ("2" :> 50) @@ ("3" :> 51) @@ ("4" :> 52) @@ ("5" :> 53)
    @@ ("6" :> 54) @@ ("7" :> 55) @@ ("8" :> 56) @@ ("9" :> 57) @@ ("a" :> 97)
    @@ ("b" :> 98) @@ ("c" :> 99) @@ ("d" :> 100) @@ ("f" :> 102) @@ ("A" :> 65)
    @@ ("B" :> 66) @@ ("C" :> 67) @@ ("D" :> 68) @@ ("F" :> 70) @@ ("n" :> 110)
    @@ ("u" :> 117) @@ ("l" :> 108) @@ ("t" :> 116) @@ ("r" :> 114) @@ ("s" :> 115)
    @@ ("I" :> 73) @@ ("N" :> 78) @@ ("i" :> 105) @@ ("y" :> 121) @@ ("x" :> 120)
    @@ (" " :> 32)

Min(a, b) == IF a < b THEN a ELSE b

\* Python's s[a:b] for 0 <= a, 0 <= b (0-based, end exclusive, clamped to
\* the length of s instead of failing).
Slice(s, a, b) == SubSeq(s, a + 1, Min(b, Len(s)))

\* Python's s[a:].
SliceFrom(s, a) == SubSeq(s, a + 1, Len(s))

\* Text of a print() call: the text followed by a line feed.
PrintLine(text) == text \o <<10>>

\* "Usage: ./print_glb_header.py <file.glb>"
USAGE_MSG ==
    <<85, 115, 97, 103, 101, 58, 32, 46, 47, 112, 114, 105, 110, 116, 95,
    103, 108, 98, 95, 104, 101, 97, 100, 101, 114, 46, 112, 121, 32, 60,
    102, 105, 108, 101, 46, 103, 108, 98, 62>>

\* "The provided file does not appear to be a glB file"
MAGIC_MSG ==
    <<84, 104, 101, 32, 112, 114, 111, 118, 105, 100, 101, 100, 32, 102,
    105, 108, 101, 32, 100, 111, 101, 115, 32, 110, 111, 116, 32, 97, 112,
    112, 101, 97, 114, 32, 116, 111, 32, 98, 101, 32, 97, 32, 103, 108, 66,
    32, 102, 105, 108, 101>>

\* "The provided file is not glTF version 2"
VERSION_MSG ==
    <<84, 104, 101, 32, 112, 114, 111, 118, 105, 100, 101, 100, 32, 102,
    105, 108, 101, 32, 105, 115, 32, 110, 111, 116, 32, 103, 108, 84, 70,
    32, 118, 101, 114, 115, 105, 111, 110, 32, 50>>

\* "Invalid glB: The first chunk of the glB file is not a JSON chunk!"
CHUNK_TYPE_MSG ==
    <<73, 110, 118, 97, 108, 105, 100, 32, 103, 108, 66, 58, 32, 84, 104,
    101, 32, 102, 105, 114, 115, 116, 32, 99, 104, 117, 110, 107, 32, 111,
    102, 32, 116, 104, 101, 32, 103, 108, 66, 32, 102, 105, 108, 101, 32,
    105, 115, 32, 110, 111, 116, 32, 97, 32, 74, 83, 79, 78, 32, 99, 104,
    117, 110, 107, 33>>

\* Expected header values.
GLB_MAGIC == 1179937895
GLB_VERSION == 2
JSON_CHUNK_TYPE == 1313821514
HEADER_SIZE == 20

\* One little-endian u32 at 0-based offset off of bytes b.
U32LE(b, off) ==
    b[off + 1] + 256 * b[off + 2] + 65536 * b[off + 3] + 16777216 * b[off + 4]

\* Variant of StructUnpack: a short buffer is padded with zero bytes instead
\* of being refused.
StructUnpackPadded(buf) ==
    LET b == buf \o [k \in 1..(HEADER_SIZE - Len(buf)) |-> 0]
    IN [ok |-> TRUE,
        fields |-> <<U32LE(b, 0), U32LE(b, 4), U32LE(b, 8), U32LE(b, 12),
                     U32LE(b, 16)>>]

\* struct.unpack("<IIIII", buf): fails unless buf holds exactly 20 bytes.
StructUnpack(buf) ==
    IF Len(buf) # HEADER_SIZE
    THEN [ok |-> FALSE, fields |-> <<>>]
    ELSE [ok |-> TRUE,
          fields |-> <<U32LE(buf, 0), U32LE(buf, 4), U32LE(buf, 8),
                       U32LE(buf, 12), U32LE(buf, 16)>>]

\* struct.pack("<I", v): the four bytes of a u32, least significant first.
PackU32(v) ==
    <<v % 256, (v \div 256) % 256, (v \div 65536) % 256, (v \div 16777216) % 256>>

(***************************************************************************)
(* json.loads(bytes), first half: bytes to text.                           *)
(* s.decode(detect_encoding(s), 'surrogatepass')                           *)
(***************************************************************************)

StartsWith(b, prefix) == Len(b) >= Len(prefix) /\ SubSeq(b, 1, Len(prefix)) = prefix

\* json.detect_encoding
DetectEncoding(b) ==
    IF StartsWith(b, <<0, 0, 254, 255>>) \/ StartsWith(b, <<255, 254, 0, 0>>)
    THEN "utf-32"
    ELSE IF StartsWith(b, <<254, 255>>) \/ StartsWith(b, <<255, 254>>)
    THEN "utf-16"
    ELSE IF StartsWith(b, <<239, 187, 191>>)
    THEN "utf-8-sig"
    ELSE IF Len(b) >= 4 /\ b[1] = 0
    THEN (IF b[2] # 0 THEN "utf-16-be" ELSE "utf-32-be")
    ELSE IF Len(b) >= 4 /\ b[2] = 0
    THEN (IF b[3] # 0 \/ b[4] # 0 THEN "utf-16-le" ELSE "utf-32-le")
    ELSE IF Len(b) = 2 /\ b[1] = 0
    THEN "utf-16-be"
    ELSE IF Len(b) = 2 /\ b[2] = 0
    THEN "utf-16-le"
    ELSE "utf-8"

IsCont(b, i) == i <= Len(b) /\ b[i] >= 128 /\ b[i] <= 191

\* The code point of the UTF-8 sequence starting at b[i] and the index after
\* it; len = 0 when the bytes there are no UTF-8 sequence. Surrogates
\* (ED A0..BF xx) pass: the error handler is 'surrogatepass'.
Utf8At(b, i) ==
    LET c == b[i] IN
    IF c < 128 THEN [len |-> 1, cp |-> c]
    ELSE IF c >= 194 /\ c <= 223 /\ IsCont(b, i + 1)
    THEN [len |-> 2, cp |-> (c - 192) * 64 + (b[i + 1] - 128)]
    ELSE IF c >= 224 /\ c <= 239 /\ IsCont(b, i + 1) /\ IsCont(b, i + 2)
            /\ (c = 224 => b[i + 1] >= 160)
    THEN [len |-> 3,
          cp |-> (c - 224) * 4096 + (b[i + 1] - 128) * 64 + (b[i + 2] - 128)]
    ELSE IF c >= 240 /\ c <= 244 /\ IsCont(b, i + 1) /\ IsCont(b, i + 2)
            /\ IsCont(b, i + 3)
            /\ (c = 240 => b[i + 1] >= 144) /\ (c = 244 => b[i + 1] <= 143)
    THEN [len |-> 4,
          cp |-> (c - 240) * 262144 + (b[i + 1] - 128) * 4096
                 + (b[i + 2] - 128) * 64 + (b[i + 3] - 128)]
    ELSE [len |-> 0, cp |-> 0]

RECURSIVE DecodeUtf8(_, _, _)

\* One step of the UTF-8 decoder, u the sequence found at b[i].
DecodeUtf8Step(b, i, acc, u) ==
    IF u.len = 0 THEN [ok |-> FALSE, text |-> <<>>]
    ELSE DecodeUtf8(b, i + u.len, Append(acc, u.cp))

DecodeUtf8(b, i, acc) ==
    IF i > Len(b) THEN [ok |-> TRUE, text |-> acc]
    ELSE DecodeUtf8Step(b, i, acc, Utf8At(b, i))

IsHighSurrogate(c) == c >= 55296 /\ c <= 56319
IsLowSurrogate(c) == c >= 56320 /\ c <= 57343
JoinSurrogates(hi, lo) == 65536 + (hi - 55296) * 1024 + (lo - 56320)

\* One UTF-16 code unit at b[i], b[i+1].
Unit16(b, i, le) == IF le THEN b[i] + 256 * b[i + 1] ELSE 256 * b[i] + b[i + 1]

RECURSIVE DecodeUtf16(_, _, _, _)
DecodeUtf16(b, i, le, acc) ==
    IF i > Len(b) THEN [ok |-> TRUE, text |-> acc]
    ELSE IF i + 1 > Len(b) THEN [ok |-> FALSE, text |-> <<>>]
    ELSE LET u == Unit16(b, i, le) IN
         IF IsHighSurrogate(u) /\ i + 3 <= Len(b)
            /\ IsLowSurrogate(Unit16(b, i + 2, le))
         THEN DecodeUtf16(b, i + 4, le,
                          Append(acc, JoinSurrogates(u, Unit16(b, i + 2, le))))
         ELSE DecodeUtf16(b, i + 2, le, Append(acc, u))

RECURSIVE DecodeUtf32(_, _, _, _)
DecodeUtf32(b, i, le, acc) ==
    IF i > Len(b) THEN [ok |-> TRUE, text |-> acc]
    ELSE IF i + 3 > Len(b) THEN [ok |-> FALSE, text |-> <<>>]
    ELSE LET top == IF le THEN b[i + 3] ELSE b[i]
             cp == IF le THEN b[i] + 256 * b[i + 1] + 65536 * b[i + 2]
                         ELSE 65536 * b[i + 1] + 256 * b[i + 2] + b[i + 3]
         IN IF top # 0 \/ cp > 1114111 THEN [ok |-> FALSE, text |-> <<>>]
            ELSE DecodeUtf32(b, i + 4, le, Append(acc, cp))

\* bytes.decode(encoding, 'surrogatepass'); ok = FALSE is UnicodeDecodeError.
BytesDecode(b, encoding) ==
    CASE encoding = "utf-8" -> DecodeUtf8(b, 1, <<>>)
      [] encoding = "utf-8-sig" -> DecodeUtf8(b, 4, <<>>)
      [] encoding = "utf-16-le" -> DecodeUtf16(b, 1, TRUE, <<>>)
      [] encoding = "utf-16-be" -> DecodeUtf16(b, 1, FALSE, <<>>)
      [] encoding = "utf-16" -> DecodeUtf16(b, 3, b[1] = 255, <<>>)
      [] encoding = "utf-32-le" -> DecodeUtf32(b, 1, TRUE, <<>>)
      [] encoding = "utf-32-be" -> DecodeUtf32(b, 1, FALSE, <<>>)
      [] encoding = "utf-32" -> DecodeUtf32(b, 5, b[1] = 255, <<>>)

(***************************************************************************)
(* json.loads, second half: JSONDecoder.decode on the text.                *)
(* A JSON value is a record [t, v]:                                        *)
(*   "null"  v = <<>>            "bool"  v = TRUE or FALSE                 *)
(*   "int"   v = [neg, digits]   (unbounded: the decimal digits)           *)
(*   "float" v = [kind, neg, digits, decpt], kind "fin", "inf" or "nan";   *)
(*           a finite float is 0.d1d2...dn * 10^decpt, digits without      *)
(*           leading or trailing zeros, empty for zero                     *)
(*   "str"   v = text            "list"  v = sequence of values            *)
(*   "dict"  v = sequence of [key, val] in insertion order, keys distinct  *)
(***************************************************************************)

Chars(strs) == [i \in 1..Len(strs) |-> Ord[strs[i]]]

NullVal == [t |-> "null", v |-> <<>>]
BoolVal(b) == [t |-> "bool", v |-> b]
IntVal(neg, digits) == [t |-> "int", v |-> [neg |-> neg, digits |-> digits]]
FloatVal(kind, neg, digits, decpt) ==
    [t |-> "float",
     v |-> [kind |-> kind, neg |-> neg, digits |-> digits, decpt |-> decpt]]
StrVal(text) == [t |-> "str", v |-> text]
ListVal(items) == [t |-> "list", v |-> items]
DictVal(pairs) == [t |-> "dict", v |-> pairs]

\* A failed scan (StopIteration or JSONDecodeError).
Fail == [ok |-> FALSE, val |-> NullVal, end |-> 0]
Done(val, end) == [ok |-> TRUE, val |-> val, end |-> end]

\* Positions are 1-based: position i is Python's index i - 1.
\* s[i:i+1], with -1 for the empty slice past the end.
At(s, i) == IF i >= 1 /\ i <= Len(s) THEN s[i] ELSE -1

\* s[i:i+len(lit)] == lit
Matches(s, i, lit) ==
    i + Len(lit) - 1 <= Len(s) /\ SubSeq(s, i, i + Len(lit) - 1) = lit

\* WHITESPACE = [ \t\n\r]*
IsWs(c) == c \in {32, 9, 10, 13}

RECURSIVE SkipWs(_, _)
SkipWs(s, i) == IF IsWs(At(s, i)) THEN SkipWs(s, i + 1) ELSE i

IsDigit(c) == c >= 48 /\ c <= 57

RECURSIVE DigitsEnd(_, _)
DigitsEnd(s, i) == IF IsDigit(At(s, i)) THEN DigitsEnd(s, i + 1) ELSE i

\* The digit values of s[from .. to].
DigitVals(s, from, to) == [k \in 1..(to - from + 1) |-> s[from + k - 1] - 48]

RECURSIVE StripLeadingZeros(_)
StripLeadingZeros(d) ==
    IF Len(d) > 0 /\ d[1] = 0 THEN StripLeadingZeros(Tail(d)) ELSE d

RECURSIVE StripTrailingZeros(_)
StripTrailingZeros(d) ==
    IF Len(d) > 0 /\ d[Len(d)] = 0
    THEN StripTrailingZeros(SubSeq(d, 1, Len(d) - 1))
    ELSE d

\* The value of a sequence of decimal digits (exponents only: they are short).
RECURSIVE DigitsToNat(_)
DigitsToNat(d) ==
    IF Len(d) = 0 THEN 0
    ELSE 10 * DigitsToNat(SubSeq(d, 1, Len(d) - 1)) + d[Len(d)]

\* Largest and smallest decimal point position of a finite nonzero double:
\* 0.d * 10^decpt is above the largest double once decpt > 309 and rounds to
\* zero once decpt < -323.
MAX_DECPT == 309
MIN_DECPT == -323

\* The leading digits of 2^1024 - 2^970, the least value that rounds to inf.
OVERFLOW_DIGITS == <<1, 7, 9, 7, 6, 9, 3, 1, 3, 4, 8, 6, 2, 3, 1, 5, 8>>

\* a >= b for digit sequences read as fractions 0.a and 0.b.
RECURSIVE FracGE(_, _)
FracGE(a, b) ==
    IF Len(b) = 0 THEN TRUE
    ELSE IF Len(a) = 0 THEN FALSE
    ELSE IF a[1] # b[1] THEN a[1] > b[1]
    ELSE FracGE(Tail(a), Tail(b))

\* int(integer): "-0" is 0.
ParseInt(neg, intDigits) ==
    IntVal(neg /\ intDigits # <<0>>, intDigits)

\* float(integer + frac + exp) for decimal digits and a decimal exponent:
\* exact while the digits are at most 15 and the value is a normal double.
ParseFloat(neg, intDigits, fracDigits, exp) ==
    LET all == StripLeadingZeros(intDigits \o fracDigits)
        decpt == Len(all) + exp - Len(fracDigits)
        digits == StripTrailingZeros(all)
    IN IF Len(digits) = 0 \/ decpt < MIN_DECPT THEN FloatVal("fin", neg, <<>>, 0)
       ELSE IF decpt > MAX_DECPT \/ (decpt = MAX_DECPT /\ FracGE(digits, OVERFLOW_DIGITS))
       THEN FloatVal("inf", neg, <<>>, 0)
       ELSE FloatVal("fin", neg, digits, decpt)

\* NUMBER_RE = (-?(?:0|[1-9]\d*))(\.\d+)?([eE][-+]?\d+)? matched at i, group
\* by group. i0 is the position of the first digit, iEnd the end of the
\* integer group, fEnd the end of the fraction group, e0 the position of
\* the first exponent digit.
NumberValue(s, neg, i0, iEnd, fEnd, hasExp, e0, eEnd) ==
    IF fEnd = iEnd /\ ~hasExp
    THEN Done(ParseInt(neg, DigitVals(s, i0, iEnd - 1)), iEnd)
    ELSE Done(ParseFloat(neg, DigitVals(s, i0, iEnd - 1),
                         DigitVals(s, iEnd + 1, fEnd - 1),
                         IF ~hasExp THEN 0
                         ELSE IF At(s, fEnd + 1) = Ord["-"]
                         THEN 0 - DigitsToNat(DigitVals(s, e0, eEnd - 1))
                         ELSE DigitsToNat(DigitVals(s, e0, eEnd - 1))),
              eEnd)

MatchExpDigits(s, neg, i0, iEnd, fEnd, e0) ==
    IF At(s, fEnd) \in {Ord["e"], Ord["E"]} /\ IsDigit(At(s, e0))
    THEN NumberValue(s, neg, i0, iEnd, fEnd, TRUE, e0, DigitsEnd(s, e0))
    ELSE NumberValue(s, neg, i0, iEnd, fEnd, FALSE, e0, fEnd)

MatchExp(s, neg, i0, iEnd, fEnd) ==
    MatchExpDigits(s, neg, i0, iEnd, fEnd,
                   IF At(s, fEnd + 1) \in {Ord["-"], Ord["+"]}
                   THEN fEnd + 2 ELSE fEnd + 1)

MatchFrac(s, neg, i0, iEnd) ==
    MatchExp(s, neg, i0, iEnd,
             IF At(s, iEnd) = Ord["."] /\ IsDigit(At(s, iEnd + 1))
             THEN DigitsEnd(s, iEnd + 1) ELSE iEnd)

MatchInt(s, neg, i0) ==
    IF ~IsDigit(At(s, i0)) THEN Fail
    ELSE MatchFrac(s, neg, i0,
                   IF At(s, i0) = Ord["0"] THEN i0 + 1 ELSE DigitsEnd(s, i0))

MatchNumber(s, i) ==
    MatchInt(s, At(s, i) = Ord["-"], IF At(s, i) = Ord["-"] THEN i + 1 ELSE i)

\* Value of a hexadecimal digit, -1 for any other character.
HexVal(c) ==
    IF c >= 48 /\ c <= 57 THEN c - 48
    ELSE IF c >= 97 /\ c <= 102 THEN c - 87
    ELSE IF c >= 65 /\ c <= 70 THEN c - 55
    ELSE -1

\* The four hexadecimal digits s[i .. i+3] of a \uXXXX escape, -1 when they
\* are not four hexadecimal digits.
DecodeUXXXX(s, i) ==
    IF \A k \in 0..3 : HexVal(At(s, i + k)) >= 0
    THEN 4096 * HexVal(s[i]) + 256 * HexVal(s[i + 1]) + 16 * HexVal(s[i + 2])
         + HexVal(s[i + 3])
    ELSE -1

\* BACKSLASH: the one-character escapes.
Backslash ==
    (Ord["\""] :> 34) @@ (Ord["\\"] :> 92) @@ (Ord["/"] :> 47) @@ (Ord["b"] :> 8)
    @@ (Ord["f"] :> 12) @@ (Ord["n"] :> 10) @@ (Ord["r"] :> 13) @@ (Ord["t"] :> 9)

RECURSIVE ScanString(_, _, _)

\* After \uXXXX with a high surrogate uni and a second \u escape uni2: the
\* two join when uni2 is a low surrogate.
ScanPair(s, i, acc, uni, uni2) ==
    IF uni2 = -1 THEN Fail
    ELSE IF IsLowSurrogate(uni2)
    THEN ScanString(s, i + 12, Append(acc, JoinSurrogates(uni, uni2)))
    ELSE ScanString(s, i + 6, Append(acc, uni))

\* After \u at i: uni is the value of the four digits that follow.
ScanUnicode(s, i, acc, uni) ==
    IF uni = -1 THEN Fail
    ELSE IF IsHighSurrogate(uni) /\ Matches(s, i + 6, Chars(<<"\\", "u">>))
    THEN ScanPair(s, i, acc, uni, DecodeUXXXX(s, i + 8))
    ELSE ScanString(s, i + 6, Append(acc, uni))

\* After a backslash at i: esc is the character that follows.
ScanEscape(s, i, acc, esc) ==
    IF esc = -1 THEN Fail
    ELSE IF esc = Ord["u"] THEN ScanUnicode(s, i, acc, DecodeUXXXX(s, i + 2))
    ELSE IF esc \in DOMAIN Backslash
    THEN ScanString(s, i + 2, Append(acc, Backslash[esc]))
    ELSE Fail

\* One character c = s[i] of the string body.
ScanChar(s, i, acc, c) ==
    IF c = -1 THEN Fail
    ELSE IF c = Ord["\""] THEN Done(StrVal(acc), i + 1)
    ELSE IF c = Ord["\\"] THEN ScanEscape(s, i, acc, At(s, i + 1))
    ELSE IF c <= 31 THEN Fail
    ELSE ScanString(s, i + 1, Append(acc, c))

\* scanstring(s, end, strict=True): i is the position after the opening
\* quote, acc the characters decoded so far.
ScanString(s, i, acc) == ScanChar(s, i, acc, At(s, i))

\* dict(pairs) insertion: a key seen before keeps its place and takes the
\* new value.
DictSet(pairs, key, val) ==
    IF \E k \in 1..Len(pairs) : pairs[k].key = key
    THEN [k \in 1..Len(pairs) |->
             IF pairs[k].key = key THEN [key |-> key, val |-> val] ELSE pairs[k]]
    ELSE Append(pairs, [key |-> key, val |-> val])

RECURSIVE ScanOnce(_, _)
RECURSIVE ArrayItems(_, _, _)
RECURSIVE ObjectPairs(_, _, _)

\* JSONArray after a value: "]" ends the array, "," leads to the next value.
ArrayDelim(s, acc, j) ==
    IF At(s, j) = Ord["]"] THEN Done(ListVal(acc), j + 1)
    ELSE IF At(s, j) # Ord[","] THEN Fail
    ELSE ArrayItems(s, SkipWs(s, j + 1), acc)

ArrayValue(s, acc, item) ==
    IF ~item.ok THEN Fail
    ELSE ArrayDelim(s, Append(acc, item.val), SkipWs(s, item.end))

\* The loop of JSONArray: a value at i, then "]" or "," and the next value.
ArrayItems(s, i, acc) == ArrayValue(s, acc, ScanOnce(s, i))

ArrayStart(s, j) ==
    IF At(s, j) = Ord["]"] THEN Done(ListVal(<<>>), j + 1)
    ELSE ArrayItems(s, j, <<>>)

\* JSONArray: i is the position after "[".
ParseArray(s, i) == ArrayStart(s, SkipWs(s, i))

\* JSONObject after "," and whitespace: the next key must open with a quote.
ObjectKey(s, acc, k) ==
    IF At(s, k) # Ord["\""] THEN Fail ELSE ObjectPairs(s, k + 1, acc)

\* JSONObject after a pair: "}" ends the object, "," leads to the next key.
ObjectDelim(s, acc, j) ==
    IF At(s, j) = Ord["}"] THEN Done(DictVal(acc), j + 1)
    ELSE IF At(s, j) # Ord[","] THEN Fail
    ELSE ObjectKey(s, acc, SkipWs(s, j + 1))

ObjectPair(s, acc, key, value) ==
    IF ~value.ok THEN Fail
    ELSE ObjectDelim(s, DictSet(acc, key, value.val), SkipWs(s, value.end))

ObjectColon(s, acc, key, colon) ==
    IF At(s, colon) # Ord[":"] THEN Fail
    ELSE ObjectPair(s, acc, key, ScanOnce(s, SkipWs(s, colon + 1)))

ObjectKeyEnd(s, acc, key) ==
    IF ~key.ok THEN Fail
    ELSE ObjectColon(s, acc, key.val.v, SkipWs(s, key.end))

\* The loop of JSONObject: i is the position after the key's opening quote.
ObjectPairs(s, i, acc) == ObjectKeyEnd(s, acc, ScanString(s, i, <<>>))

ObjectStart(s, j) ==
    IF At(s, j) = Ord["}"] THEN Done(DictVal(<<>>), j + 1)
    ELSE IF At(s, j) # Ord["\""] THEN Fail
    ELSE ObjectPairs(s, j + 1, <<>>)

\* JSONObject: i is the position after "{".
ParseObject(s, i) == ObjectStart(s, SkipWs(s, i))

\* scan_once where no string, object, array, null, true or false starts:
\* a number, else one of the constants NaN, Infinity, -Infinity.
ScanNumber(s, i, num) ==
    IF num.ok THEN num
    ELSE IF Matches(s, i, Chars(<<"N", "a", "N">>))
    THEN Done(FloatVal("nan", FALSE, <<>>, 0), i + 3)
    ELSE IF Matches(s, i, Chars(<<"I", "n", "f", "i", "n", "i", "t", "y">>))
    THEN Done(FloatVal("inf", FALSE, <<>>, 0), i + 8)
    ELSE IF Matches(s, i, Chars(<<"-", "I", "n", "f", "i", "n", "i", "t", "y">>))
    THEN Done(FloatVal("inf", TRUE, <<>>, 0), i + 9)
    ELSE Fail

ScanToken(s, i, c) ==
    IF c = -1 THEN Fail
    ELSE IF c = Ord["\""] THEN ScanString(s, i + 1, <<>>)
    ELSE IF c = Ord["{"] THEN ParseObject(s, i + 1)
    ELSE IF c = Ord["["] THEN ParseArray(s, i + 1)
    ELSE IF Matches(s, i, Chars(<<"n", "u", "l", "l">>)) THEN Done(NullVal, i + 4)
    ELSE IF Matches(s, i, Chars(<<"t", "r", "u", "e">>))
    THEN Done(BoolVal(TRUE), i + 4)
    ELSE IF Matches(s, i, Chars(<<"f", "a", "l", "s", "e">>))
    THEN Done(BoolVal(FALSE), i + 5)
    ELSE ScanNumber(s, i, MatchNumber(s, i))

\* scanner.scan_once(s, idx)
ScanOnce(s, i) == ScanToken(s, i, At(s, i))

\* The end of JSONDecoder.decode: nothing but whitespace may follow the
\* value ("Extra data" otherwise).
DecodeEnd(s, r) ==
    IF r.ok /\ SkipWs(s, r.end) = Len(s) + 1 THEN r ELSE Fail

\* JSONDecoder.decode(s): one value between optional whitespace.
JsonDecode(s) == DecodeEnd(s, ScanOnce(s, SkipWs(s, 1)))

LoadsResult(r) ==
    IF ~r.ok THEN [err |-> "JSONDecodeError", val |-> NullVal]
    ELSE [err |-> "", val |-> r.val]

LoadsText(text) ==
    IF ~text.ok THEN [err |-> "UnicodeDecodeError", val |-> NullVal]
    ELSE LoadsResult(JsonDecode(text.text))

\* json.loads(b) for bytes b: err is "" on success, else the exception raised.
JsonLoads(b) == LoadsText(BytesDecode(b, DetectEncoding(b)))

(***************************************************************************)
(* json.dumps(obj, indent=2): JSONEncoder(indent=2).encode, with the        *)
(* defaults ensure_ascii=True, item separator "," and key separator ": ".  *)
(***************************************************************************)

INDENT == 2

Repeat(c, n) == [k \in 1..n |-> c]

\* The characters of a sequence of digit values.
DigitChars(d) == [k \in 1..Len(d) |-> d[k] + 48]

\* The decimal digits of a natural number.
RECURSIVE NatDigits(_)
NatDigits(n) == IF n < 10 THEN <<n>> ELSE Append(NatDigits(n \div 10), n % 10)

\* int.__repr__
IntRepr(v) ==
    (IF v.neg THEN <<Ord["-"]>> ELSE <<>>) \o DigitChars(v.digits)

\* float.__repr__ of a finite float: the shortest digits that round-trip,
\* in scientific notation when decpt <= -4 or decpt > 16, always with a
\* ".0" or an exponent.
FloatRepr(v) ==
    LET n == Len(v.digits)
        d == DigitChars(v.digits)
        sign == IF v.neg THEN <<Ord["-"]>> ELSE <<>>
        e == v.decpt - 1
        eAbs == IF e < 0 THEN 0 - e ELSE e
        eDigits == IF eAbs < 10 THEN <<0, eAbs>> ELSE NatDigits(eAbs)
    IN IF n = 0 THEN sign \o Chars(<<"0", ".", "0">>)
       ELSE IF v.decpt <= -4 \/ v.decpt > 16
       THEN sign \o <<d[1]>>
            \o (IF n > 1 THEN <<Ord["."]>> \o Tail(d) ELSE <<>>)
            \o <<Ord["e"], IF e < 0 THEN Ord["-"] ELSE Ord["+"]>>
            \o DigitChars(eDigits)
       ELSE IF v.decpt <= 0
       THEN sign \o Chars(<<"0", ".">>) \o Repeat(Ord["0"], 0 - v.decpt) \o d
       ELSE IF v.decpt >= n
       THEN sign \o d \o Repeat(Ord["0"], v.decpt - n) \o Chars(<<".", "0">>)
       ELSE sign \o SubSeq(d, 1, v.decpt) \o <<Ord["."]>> \o SubSeq(d, v.decpt + 1, n)

\* floatstr: NaN, Infinity and -Infinity are written as such.
FloatStr(v) ==
    IF v.kind = "nan" THEN Chars(<<"N", "a", "N">>)
    ELSE IF v.kind = "inf"
    THEN (IF v.neg THEN <<Ord["-"]>> ELSE <<>>)
         \o Chars(<<"I", "n", "f", "i", "n", "i", "t", "y">>)
    ELSE FloatRepr(v)

HexChar(h) == IF h < 10 THEN h + 48 ELSE h + 87

\* \uXXXX with four lowercase hexadecimal digits.
UEscape(c) ==
    <<Ord["\\"], Ord["u"], HexChar(c \div 4096), HexChar((c \div 256) % 16),
      HexChar((c \div 16) % 16), HexChar(c % 16)>>

\* Variant of EscapeChar: the quotation mark is written unescaped.
EscapeCharNoQuote(c) ==
    IF c = 92 THEN Chars(<<"\\", "\\">>)
    ELSE IF c = 10 THEN Chars(<<"\\", "n">>)
    ELSE IF c = 13 THEN Chars(<<"\\", "r">>)
    ELSE IF c = 9 THEN Chars(<<"\\", "t">>)
    ELSE IF c = 12 THEN Chars(<<"\\", "f">>)
    ELSE IF c = 8 THEN Chars(<<"\\", "b">>)
    ELSE IF c >= 32 /\ c <= 126 THEN <<c>>
    ELSE IF c >= 65536
    THEN UEscape(55296 + ((c - 65536) \div 1024))
         \o UEscape(56320 + ((c - 65536) % 1024))
    ELSE UEscape(c)

\* One character of encode_basestring_ascii.
EscapeChar(c) ==
    IF c = 34 THEN Chars(<<"\\", "\"">>)
    ELSE IF c = 92 THEN Chars(<<"\\", "\\">>)
    ELSE IF c = 10 THEN Chars(<<"\\", "n">>)
    ELSE IF c = 13 THEN Chars(<<"\\", "r">>)
    ELSE IF c = 9 THEN Chars(<<"\\", "t">>)
    ELSE IF c = 12 THEN Chars(<<"\\", "f">>)
    ELSE IF c = 8 THEN Chars(<<"\\", "b">>)
    ELSE IF c >= 32 /\ c <= 126 THEN <<c>>
    ELSE IF c >= 65536
    THEN UEscape(55296 + ((c - 65536) \div 1024))
         \o UEscape(56320 + ((c - 65536) % 1024))
    ELSE UEscape(c)

RECURSIVE EscapeChars(_)
EscapeChars(text) ==
    IF Len(text) = 0 THEN <<>>
    ELSE EscapeChar(text[1]) \o EscapeChars(Tail(text))

\* encode_basestring_ascii
EncodeString(text) == <<34>> \o EscapeChars(text) \o <<34>>

\* newline_indent at a nesting level
NewlineIndent(level) == <<10>> \o Repeat(32, INDENT * level)

RECURSIVE Iterencode(_, _)
RECURSIVE EncodeItems(_, _, _)
RECURSIVE EncodePairs(_, _, _)

\* _iterencode_list after "[": the items from k on.
EncodeItems(items, k, level) ==
    IF k > Len(items) THEN <<>>
    ELSE (IF k = 1 THEN NewlineIndent(level) ELSE <<Ord[","]>> \o NewlineIndent(level))
         \o Iterencode(items[k], level)
         \o EncodeItems(items, k + 1, level)

\* _iterencode_dict after "{": the pairs from k on.
EncodePairs(pairs, k, level) ==
    IF k > Len(pairs) THEN <<>>
    ELSE (IF k = 1 THEN NewlineIndent(level) ELSE <<Ord[","]>> \o NewlineIndent(level))
         \o EncodeString(pairs[k].key) \o Chars(<<":", " ">>)
         \o Iterencode(pairs[k].val, level)
         \o EncodePairs(pairs, k + 1, level)

\* _iterencode(o, _current_indent_level)
Iterencode(o, level) ==
    CASE o.t = "null" -> Chars(<<"n", "u", "l", "l">>)
      [] o.t = "bool" -> (IF o.v THEN Chars(<<"t", "r", "u", "e">>)
                          ELSE Chars(<<"f", "a", "l", "s", "e">>))
      [] o.t = "int" -> IntRepr(o.v)
      [] o.t = "float" -> FloatStr(o.v)
      [] o.t = "str" -> EncodeString(o.v)
      [] o.t = "list" ->
           IF Len(o.v) = 0 THEN Chars(<<"[", "]">>)
           ELSE <<Ord["["]>> \o EncodeItems(o.v, 1, level + 1)
                \o NewlineIndent(level) \o <<Ord["]"]>>
      [] o.t = "dict" ->
           IF Len(o.v) = 0 THEN Chars(<<"{", "}">>)
           ELSE <<Ord["{"]>> \o EncodePairs(o.v, 1, level + 1)
                \o NewlineIndent(level) \o <<Ord["}"]>>

\* json.dumps(obj, indent=2)
JsonDumps(obj) == Iterencode(obj, 0)

(***************************************************************************)
(* The program.                                                            *)
(***************************************************************************)

VARIABLES
    argv,       \* sys.argv
    disk,       \* the file system: file name -> bytes
    pc,         \* the source line about to run, "exit" once the process ended
    f,          \* the file object: "unopened", "open" or "closed"
    content,    \* f.read()
    header,     \* the five unpacked fields
    jsonChunk,  \* the decoded JSON value
    stdout,     \* the text written to standard output
    exitCode,   \* the exit status, meaningful once pc = "exit"
    exc         \* the uncaught exception that ended the run, "" for none

vars == <<argv, disk, pc, f, content, header, jsonChunk, stdout, exitCode, exc>>

\* Variants of JsonChunkBytes: the length taken from totalLength
\* (header[2]); no end at all (content[20:]); and a slice that is empty
\* instead of clamped when it reaches past the end.
JsonChunkBytesTotal(c, h) == Slice(c, HEADER_SIZE, HEADER_SIZE + h[3])
JsonChunkBytesToEnd(c, h) == SliceFrom(c, HEADER_SIZE)
JsonChunkBytesUnclamped(c, h) ==
    IF HEADER_SIZE + h[4] > Len(c) THEN <<>>
    ELSE Slice(c, HEADER_SIZE, HEADER_SIZE + h[4])

\* content[20:20+header[3]]: the bytes handed to json.loads.
JsonChunkBytes(c, h) == Slice(c, HEADER_SIZE, HEADER_SIZE + h[4])

\* Variant of ExitWith: sys.exit(0).
ExitWithZero(msg) ==
    /\ stdout' = stdout \o PrintLine(msg)
    /\ exitCode' = 0
    /\ f' = IF f = "open" THEN "closed" ELSE f
    /\ pc' = "exit"

\* sys.exit(1) after print(msg); leaving the with block closes the file.
ExitWith(msg) ==
    /\ stdout' = stdout \o PrintLine(msg)
    /\ exitCode' = 1
    /\ f' = IF f = "open" THEN "closed" ELSE f
    /\ pc' = "exit"

\* An uncaught exception: traceback on standard error, exit status 1.
Raise(name) ==
    /\ exc' = name
    /\ exitCode' = 1
    /\ f' = IF f = "open" THEN "closed" ELSE f
    /\ pc' = "exit"

\* Variant of CheckArgs: the usage line is printed and the run goes on.
CheckArgsNoExit ==
    /\ pc = "l7"
    /\ stdout' = IF Len(argv) = 1 THEN stdout \o PrintLine(USAGE_MSG) ELSE stdout
    /\ pc' = "l12"
    /\ UNCHANGED <<argv, disk, content, header, jsonChunk, exitCode, f, exc>>

\* Lines 7-9: if len(sys.argv) == 1: print usage, sys.exit(1)
CheckArgs ==
    /\ pc = "l7"
    /\ IF Len(argv) = 1
       THEN /\ ExitWith(USAGE_MSG)
            /\ UNCHANGED exc
       ELSE /\ pc' = "l12"
            /\ UNCHANGED <<stdout, exitCode, f, exc>>
    /\ UNCHANGED <<argv, disk, content, header, jsonChunk>>

\* Lines 11-12: glbFile = sys.argv[1]; open(glbFile, "rb")
OpenFile ==
    /\ pc = "l12"
    /\ IF argv[2] \in DOMAIN disk
       THEN /\ f' = "open"
            /\ pc' = "l13"
            /\ UNCHANGED <<exitCode, exc>>
       ELSE Raise("FileNotFoundError")
    /\ UNCHANGED <<argv, disk, content, header, jsonChunk, stdout>>

\* Line 13: content = f.read()
ReadFile ==
    /\ pc = "l13"
    /\ content' = disk[argv[2]]
    /\ pc' = "l22"
    /\ UNCHANGED <<argv, disk, f, header, jsonChunk, stdout, exitCode, exc>>

\* Line 22: header = struct.unpack("<IIIII", content[0:20])
UnpackHeader ==
    /\ pc = "l22"
    /\ LET r == StructUnpack(Slice(content, 0, HEADER_SIZE))
       IN IF r.ok
          THEN /\ header' = r.fields
               /\ pc' = "l24"
               /\ UNCHANGED <<f, exitCode, exc>>
          ELSE /\ Raise("struct.error")
               /\ UNCHANGED header
    /\ UNCHANGED <<argv, disk, content, jsonChunk, stdout>>

\* Lines 24-26: magic
CheckMagic ==
    /\ pc = "l24"
    /\ IF header[1] # GLB_MAGIC
       THEN ExitWith(MAGIC_MSG)
       ELSE /\ pc' = "l27"
            /\ UNCHANGED <<stdout, exitCode, f>>
    /\ UNCHANGED <<argv, disk, content, header, jsonChunk, exc>>

\* Variant of CheckVersion: only versions below 2 are refused.
CheckVersionAtLeast ==
    /\ pc = "l27"
    /\ IF header[2] < GLB_VERSION
       THEN /\ stdout' = stdout \o PrintLine(VERSION_MSG)
            /\ exitCode' = 1
            /\ f' = "closed"
            /\ pc' = "exit"
       ELSE /\ pc' = "l30"
            /\ UNCHANGED <<stdout, exitCode, f>>
    /\ UNCHANGED <<argv, disk, content, header, jsonChunk, exc>>

\* Lines 27-29: version
CheckVersion ==
    /\ pc = "l27"
    /\ IF header[2] # GLB_VERSION
       THEN ExitWith(VERSION_MSG)
       ELSE /\ pc' = "l30"
            /\ UNCHANGED <<stdout, exitCode, f>>
    /\ UNCHANGED <<argv, disk, content, header, jsonChunk, exc>>

\* Variant of CheckChunkType: the message is printed and the run goes on to
\* the decode.
CheckChunkTypeNoExit ==
    /\ pc = "l30"
    /\ stdout' = IF header[5] # JSON_CHUNK_TYPE
                 THEN stdout \o PrintLine(CHUNK_TYPE_MSG) ELSE stdout
    /\ pc' = "l35"
    /\ UNCHANGED <<argv, disk, content, header, jsonChunk, exc, exitCode, f>>

\* Lines 30-32: chunk type
CheckChunkType ==
    /\ pc = "l30"
    /\ IF header[5] # JSON_CHUNK_TYPE
       THEN ExitWith(CHUNK_TYPE_MSG)
       ELSE /\ pc' = "l35"
            /\ UNCHANGED <<stdout, exitCode, f>>
    /\ UNCHANGED <<argv, disk, content, header, jsonChunk, exc>>

\* Variant of LoadJsonResult: a decoding error is caught and null printed.
LoadJsonResultCaught(r) ==
    /\ jsonChunk' = IF r.err = "" THEN r.val ELSE NullVal
    /\ pc' = "l36"
    /\ UNCHANGED <<f, exitCode, exc>>

\* Line 35 once json.loads returned or raised.
LoadJsonResult(r) ==
    IF r.err = ""
    THEN /\ jsonChunk' = r.val
         /\ pc' = "l36"
         /\ UNCHANGED <<f, exitCode, exc>>
    ELSE /\ Raise(r.err)
         /\ UNCHANGED jsonChunk

\* Line 35: jsonChunk = json.loads(content[20:20+header[3]])
LoadJson ==
    /\ pc = "l35"
    /\ LoadJsonResult(JsonLoads(JsonChunkBytes(content, header)))
    /\ UNCHANGED <<argv, disk, content, header, stdout>>

\* Line 36: print(json.dumps(jsonChunk, indent=2)); then the with block and
\* the script end: the file is closed and the exit status is 0.
PrintJson ==
    /\ pc = "l36"
    /\ stdout' = stdout \o PrintLine(JsonDumps(jsonChunk))
    /\ f' = "closed"
    /\ exitCode' = 0
    /\ pc' = "exit"
    /\ UNCHANGED <<argv, disk, content, header, jsonChunk, exc>>

Next ==
    \/ CheckArgs
    \/ OpenFile
    \/ ReadFile
    \/ UnpackHeader
    \/ CheckMagic
    \/ CheckVersion
    \/ CheckChunkType
    \/ LoadJson
    \/ PrintJson

\* What a run leaves behind.
Outcome(out, code, raised) == [stdout |-> out, exitCode |-> code, exc |-> raised]

MainJson(j) ==
    IF j.err # "" THEN Outcome(<<>>, 1, j.err)
    ELSE Outcome(PrintLine(JsonDumps(j.val)), 0, "")

MainChecks(file, h) ==
    IF h[1] # GLB_MAGIC THEN Outcome(PrintLine(MAGIC_MSG), 1, "")
    ELSE IF h[2] # GLB_VERSION THEN Outcome(PrintLine(VERSION_MSG), 1, "")
    ELSE IF h[5] # JSON_CHUNK_TYPE THEN Outcome(PrintLine(CHUNK_TYPE_MSG), 1, "")
    ELSE MainJson(JsonLoads(JsonChunkBytes(file, h)))

MainHeader(file, r) ==
    IF ~r.ok THEN Outcome(<<>>, 1, "struct.error") ELSE MainChecks(file, r.fields)

\* Lines 22-36 as one function of the bytes read: what the run prints and
\* how it ends.
Main(file) == MainHeader(file, StructUnpack(Slice(file, 0, HEADER_SIZE)))

(***************************************************************************)
(* Inputs: command lines and files.                                        *)
(***************************************************************************)

\* Longest chunk drawn exhaustively from Alphabet.
MaxLen == 4

Alphabet == {Ord["["], Ord["]"], Ord["\""], Ord["\\"], Ord["1"], Ord[","], Ord["-"], Ord[" "]}

\* Every byte string over Alphabet of length at most n.
Strings(n) == UNION {[1..k -> Alphabet] : k \in 0..n}

\* Chunks of interest beyond the exhaustive ones.
SamplePayloads == {
    <<123, 125>>,  \* {}
    <<123, 34, 97, 34, 58, 49, 44, 34, 97, 34, 58, 50, 125>>,  \* {"a":1,"a":2}
    <<123, 34, 98, 34, 58, 49, 44, 34, 97, 34, 58, 91, 116, 114, 117, 101, 44, 110, 117, 108, 108, 93, 125>>,  \* {"b":1,"a":[true,null]}
    <<91, 49, 44, 91, 50, 44, 123, 34, 34, 58, 91, 93, 125, 93, 93>>,  \* [1,[2,{"":[]}]]
    <<123, 32, 34, 97, 34, 32, 58, 32, 91, 32, 93, 32, 125, 10>>,  \* { "a" : [ ] }\x0a
    <<78, 97, 78>>,  \* NaN
    <<45, 73, 110, 102, 105, 110, 105, 116, 121>>,  \* -Infinity
    <<91, 73, 110, 102, 105, 110, 105, 116, 121, 93>>,  \* [Infinity]
    <<49, 101, 50>>,  \* 1e2
    <<49, 46, 53, 48>>,  \* 1.50
    <<45, 48, 46, 48>>,  \* -0.0
    <<49, 69, 43, 49, 54>>,  \* 1E+16
    <<49, 50, 101, 45, 54>>,  \* 12e-6
    <<49, 101, 57, 57, 57>>,  \* 1e999
    <<45, 48>>,  \* -0
    <<34, 92, 34, 92, 92, 92, 47, 92, 110, 34>>,  \* "\"\\\/\n"
    <<34, 92, 117, 48, 48, 101, 57, 34>>,  \* "\u00e9"
    <<34, 92, 117, 100, 56, 51, 100, 92, 117, 100, 101, 48, 48, 34>>,  \* "\ud83d\ude00"
    <<34, 92, 117, 100, 56, 48, 48, 34>>,  \* "\ud800"
    <<34, 92, 117, 49, 50, 34>>,  \* "\u12"
    <<34, 92, 120, 34>>,  \* "\x"
    <<34, 195, 169, 34>>,  \* "\xc3\xa9"
    <<34, 240, 159, 152, 128, 34>>,  \* "\xf0\x9f\x98\x80"
    <<34, 127, 34>>,  \* "\x7f"
    <<34, 9, 34>>,  \* "\x09"
    <<255>>,  \* \xff
    <<34, 195, 34>>,  \* "\xc3"
    <<239, 187, 191, 91, 93>>,  \* \xef\xbb\xbf[]
    <<49, 0>>,  \* 1\x00
    <<255, 254, 49, 0>>,  \* \xff\xfe1\x00
    <<123, 34, 97, 34, 58, 49, 44, 125>>,  \* {"a":1,}
    <<123, 34, 97, 34, 125>>,  \* {"a"}
    <<91, 49, 32, 50, 93>>,  \* [1 2]
    <<102, 97, 108, 115, 101>>,  \* false
    <<116, 114, 117>>,  \* tru
    <<48, 49>>,  \* 01
    <<123, 125, 123, 125>>  \* {}{}
}

\* The 20 header bytes.
HeaderBytes(magic, version, totalLength, chunkLength, chunkType) ==
    PackU32(magic) \o PackU32(version) \o PackU32(totalLength)
    \o PackU32(chunkLength) \o PackU32(chunkType)

\* Magic, version and chunk type values: the expected one, a near miss, and
\* the expected one stored big-endian; for the chunk type also "BIN".
Magics == {GLB_MAGIC, GLB_MAGIC + 1, 1735152710}
Versions == {GLB_VERSION, 1, 3, 33554432}
ChunkTypes == {JSON_CHUNK_TYPE, 5130562, 1246973774}

\* Lengths of files cut short of a full header.
ShortLens == {0, 3, 4, 8, 12, 19}

\* A file that varies the header around a short chunk.
HeaderFile(m, v, tl, ct, p) == HeaderBytes(m, v, tl, Len(p), ct) \o p

HeaderPayloads ==
    {Chars(<<"{", "}">>), Chars(<<"[", "1", "]">>), Chars(<<"]">>), <<>>}

\* Declared chunk lengths for a file whose bytes after the header are rest:
\* exact, one short and one long; and zero and far past the end.
ChunkLengths(rest) == {n \in {Len(rest) - 1, Len(rest), Len(rest) + 1} : n >= 0}
FarLengths == {0, 1073741824}

\* A file with a valid header, the bytes rest after it and the declared
\* chunk length n.
ChunkFile(rest, n) ==
    HeaderBytes(GLB_MAGIC, GLB_VERSION, HEADER_SIZE + Len(rest), n, JSON_CHUNK_TYPE)
    \o rest

PROG == "./print_glb_header.py"
GLB == "model.glb"

NoFiles == [name \in {} |-> <<>>]
OneFile(bytes) == [name \in {GLB} |-> bytes]

\* No argument, with and without a file on disk.
InitNoArgument ==
    /\ argv = <<PROG>>
    /\ disk \in {NoFiles, OneFile(<<>>), OneFile(ChunkFile(Chars(<<"{", "}">>), 2))}

\* An argument that names no file.
InitNoFile ==
    /\ argv = <<PROG, GLB>>
    /\ disk = NoFiles

\* Files that vary the header, whole and cut short, named by the first of
\* one or two arguments.
InitHeaderFile ==
    \E m \in Magics, v \in Versions, ct \in ChunkTypes, tl \in {0, 64},
       p \in HeaderPayloads, cut \in ShortLens \cup {64} :
        /\ argv \in {<<PROG, GLB>>, <<PROG, GLB, "extra">>}
        /\ disk = OneFile(Slice(HeaderFile(m, v, tl, ct, p), 0, cut))

\* Files with a valid header that vary the bytes after it, every string
\* over Alphabet up to MaxLen, and the declared chunk length.
InitChunkFile ==
    \E rest \in Strings(MaxLen) :
        \E n \in ChunkLengths(rest) :
            /\ argv = <<PROG, GLB>>
            /\ disk = OneFile(ChunkFile(rest, n))

\* Files with a valid header and one of the sample chunks after it.
InitSampleFile ==
    \E rest \in SamplePayloads :
        \E n \in ChunkLengths(rest) \cup FarLengths :
            /\ argv = <<PROG, GLB>>
            /\ disk = OneFile(ChunkFile(rest, n))

Init ==
    /\ \/ InitNoArgument
       \/ InitNoFile
       \/ InitHeaderFile
       \/ InitChunkFile
       \/ InitSampleFile
    /\ pc = "l7"
    /\ f = "unopened"
    /\ content = <<>>
    /\ header = <<>>
    /\ jsonChunk = NullVal
    /\ stdout = <<>>
    /\ exitCode = 0
    /\ exc = ""

Spec == Init /\ [][Next]_vars

(***************************************************************************)
(* What the properties below say about the input, read off the file's      *)
(* bytes directly.                                                         *)
(***************************************************************************)

HasFile == Len(argv) >= 2 /\ argv[2] \in DOMAIN disk
InputFile == disk[argv[2]]
FullHeader == HasFile /\ Len(InputFile) >= 20

\* The bytes "glTF", version 2 and "JSON" as they lie in the file.
MagicOK == SubSeq(InputFile, 1, 4) = <<103, 108, 84, 70>>
VersionOK == SubSeq(InputFile, 5, 8) = <<2, 0, 0, 0>>
ChunkTypeOK == SubSeq(InputFile, 17, 20) = <<74, 83, 79, 78>>
HeaderValid == FullHeader /\ MagicOK /\ VersionOK /\ ChunkTypeOK

\* The chunkLength field, bytes 12..15, least significant byte first.
DeclaredLen ==
    InputFile[13] + 256 * (InputFile[14] + 256 * (InputFile[15] + 256 * InputFile[16]))

\* Whether bytes [20, 20+chunkLength) all lie in the file, and those bytes.
ChunkInFile == 20 + DeclaredLen <= Len(InputFile)
DeclaredChunk == SubSeq(InputFile, 21, 20 + DeclaredLen)

\* The bytes from offset 20 to the end of the file.
Rest == SubSeq(InputFile, 21, Len(InputFile))

\* The run is over.
Exited == pc = "exit"

\* The run printed exactly this text, as a line, and ended with exit code 1
\* by sys.exit.
OnlyMessage(msg) == stdout = msg \o <<10>> /\ exitCode = 1 /\ exc = ""

\* The run ended in an uncaught decoding error of json.loads: nothing on
\* standard output, no exit code 0.
DecodeErrorOutcome ==
    /\ exc \in {"JSONDecodeError", "UnicodeDecodeError"}
    /\ stdout = <<>>
    /\ exitCode # 0

(***************************************************************************)
(* The JSON grammar of RFC 8259 as a recognizer, written from the grammar: *)
(* each operator returns the position after what it recognized at i, or 0. *)
(* With ext, the literals NaN, Infinity and -Infinity count as values.     *)
(***************************************************************************)

RECURSIVE GWs(_, _)
GWs(s, i) ==
    IF i >= 1 /\ i <= Len(s) /\ s[i] \in {32, 9, 10, 13} THEN GWs(s, i + 1) ELSE i

GIs(s, i, c) == i >= 1 /\ i <= Len(s) /\ s[i] = c
GDigit(s, i) == i >= 1 /\ i <= Len(s) /\ s[i] \in 48..57
GHex(s, i) == i >= 1 /\ i <= Len(s) /\ s[i] \in (48..57) \cup (65..70) \cup (97..102)
GLit(s, i, lit) == i + Len(lit) - 1 <= Len(s) /\ \A k \in 1..Len(lit) : s[i + k - 1] = lit[k]

RECURSIVE GDigits(_, _)
GDigits(s, i) == IF GDigit(s, i) THEN GDigits(s, i + 1) ELSE i

\* number = [ minus ] int [ frac ] [ exp ]
GNumber(s, i) ==
    LET a == IF GIs(s, i, 45) THEN i + 1 ELSE i
        b == IF GIs(s, a, 48) THEN a + 1 ELSE GDigits(s, a)
        c == IF GIs(s, b, 46) /\ GDigit(s, b + 1) THEN GDigits(s, b + 1) ELSE b
        d == IF GIs(s, c + 1, 43) \/ GIs(s, c + 1, 45) THEN c + 2 ELSE c + 1
        e == IF (GIs(s, c, 101) \/ GIs(s, c, 69)) /\ GDigit(s, d)
             THEN GDigits(s, d) ELSE c
    IN IF GDigit(s, a) THEN e ELSE 0

\* string = quotation-mark *char quotation-mark, i after the opening quote
RECURSIVE GString(_, _)
GString(s, i) ==
    IF i > Len(s) THEN 0
    ELSE IF s[i] = 34 THEN i + 1
    ELSE IF s[i] = 92
    THEN (IF i + 1 <= Len(s) /\ s[i + 1] \in {34, 92, 47, 98, 102, 110, 114, 116}
          THEN GString(s, i + 2)
          ELSE IF GIs(s, i + 1, 117) /\ \A k \in 2..5 : GHex(s, i + k)
          THEN GString(s, i + 6)
          ELSE 0)
    ELSE IF s[i] < 32 THEN 0
    ELSE GString(s, i + 1)

RECURSIVE GValue(_, _, _)
RECURSIVE GElements(_, _, _)
RECURSIVE GMembers(_, _, _)

\* array = "[" [ value *( "," value ) ] "]", i at the first value
GElements(s, i, ext) ==
    LET v == GValue(s, i, ext)
        j == GWs(s, v)
    IN IF v = 0 THEN 0
       ELSE IF GIs(s, j, 93) THEN j + 1
       ELSE IF GIs(s, j, 44) THEN GElements(s, GWs(s, j + 1), ext)
       ELSE 0

\* object = "{" [ member *( "," member ) ] "}", member = string ":" value,
\* i at the first member's opening quote
GMembers(s, i, ext) ==
    LET k == IF GIs(s, i, 34) THEN GString(s, i + 1) ELSE 0
        c == GWs(s, k)
        v == IF k # 0 /\ GIs(s, c, 58) THEN GValue(s, GWs(s, c + 1), ext) ELSE 0
        j == GWs(s, v)
    IN IF v = 0 THEN 0
       ELSE IF GIs(s, j, 125) THEN j + 1
       ELSE IF GIs(s, j, 44) THEN GMembers(s, GWs(s, j + 1), ext)
       ELSE 0

\* value = false / null / true / object / array / number / string
GValue(s, i, ext) ==
    IF GIs(s, i, 34) THEN GString(s, i + 1)
    ELSE IF GIs(s, i, 91)
    THEN (IF GIs(s, GWs(s, i + 1), 93) THEN GWs(s, i + 1) + 1
          ELSE GElements(s, GWs(s, i + 1), ext))
    ELSE IF GIs(s, i, 123)
    THEN (IF GIs(s, GWs(s, i + 1), 125) THEN GWs(s, i + 1) + 1
          ELSE GMembers(s, GWs(s, i + 1), ext))
    ELSE IF GLit(s, i, <<110, 117, 108, 108>>) THEN i + 4
    ELSE IF GLit(s, i, <<116, 114, 117, 101>>) THEN i + 4
    ELSE IF GLit(s, i, <<102, 97, 108, 115, 101>>) THEN i + 5
    ELSE IF GNumber(s, i) # 0 THEN GNumber(s, i)
    ELSE IF ext /\ GLit(s, i, <<78, 97, 78>>) THEN i + 3
    ELSE IF ext /\ GLit(s, i, <<73, 110, 102, 105, 110, 105, 116, 121>>) THEN i + 8
    ELSE IF ext /\ GLit(s, i, <<45, 73, 110, 102, 105, 110, 105, 116, 121>>) THEN i + 9
    ELSE 0

\* JSON-text = ws value ws
GText(s, ext) ==
    LET v == GValue(s, GWs(s, 1), ext)
    IN v # 0 /\ GWs(s, v) = Len(s) + 1

\* The text of the bytes, in the encoding their first bytes show (UTF-8,
\* UTF-16 or UTF-32, with or without a byte order mark).
TextOf(b) == BytesDecode(b, DetectEncoding(b))

\* Valid JSON: bytes that decode to a JSON-text.
ValidJson(b) == TextOf(b).ok /\ GText(TextOf(b).text, FALSE)

\* What the decoder takes: a JSON-text that may also use the literals NaN,
\* Infinity and -Infinity as values.
DecoderAccepts(b) == TextOf(b).ok /\ GText(TextOf(b).text, TRUE)

(***************************************************************************)
(* Properties.                                                             *)
(***************************************************************************)

\* C1: a file of at least 20 bytes with the right magic, version and chunk
\* type whose bytes [20, 20+chunkLength) are valid JSON makes the run print
\* exactly the 2-space-indented serialization of that JSON value, and
\* nothing else, and end with exit code 0.
C1_ValidChunkPrinted ==
    (Exited /\ HeaderValid /\ ChunkInFile /\ ValidJson(DeclaredChunk))
        => /\ JsonLoads(DeclaredChunk).err = ""
           /\ stdout = JsonDumps(JsonLoads(DeclaredChunk).val) \o <<10>>
           /\ exitCode = 0
           /\ exc = ""

\* A run printed a JSON object with members, from a chunk followed by other
\* bytes in the file.
C1_Witness ==
    /\ Exited /\ HeaderValid /\ ChunkInFile /\ ValidJson(DeclaredChunk)
    /\ DeclaredChunk = <<123, 34, 98, 34, 58, 49, 44, 34, 97, 34, 58, 91, 116,
                         114, 117, 101, 44, 110, 117, 108, 108, 93, 125>>
    /\ exitCode = 0

\* A second run on a valid chunk that is followed by one more byte.
C1_WitnessTrailing ==
    /\ Exited /\ HeaderValid
    /\ 20 + DeclaredLen < Len(InputFile)
    /\ ValidJson(DeclaredChunk)
    /\ exitCode = 0

\* C2: a file of at least 20 bytes whose first u32 is not the magic makes
\* the run print the magic-mismatch message as its only output, whatever the
\* other fields and the payload are, and end with exit code 1.
C2_BadMagic ==
    (Exited /\ FullHeader /\ ~MagicOK) => OnlyMessage(MAGIC_MSG)

\* A run ended on a file whose magic, version and chunk type are all wrong.
C2_Witness ==
    Exited /\ FullHeader /\ ~MagicOK /\ ~VersionOK /\ ~ChunkTypeOK
    /\ stdout # <<>>

\* C3: right magic and a version other than 2 make the run print the
\* version message as its only output, whatever the chunk type, chunk length
\* and payload are, and end with exit code 1.
C3_BadVersion ==
    (Exited /\ FullHeader /\ MagicOK /\ ~VersionOK) => OnlyMessage(VERSION_MSG)

\* A run ended on a file with the right magic, a wrong version and a wrong
\* chunk type.
C3_Witness ==
    Exited /\ FullHeader /\ MagicOK /\ ~VersionOK /\ ~ChunkTypeOK /\ stdout # <<>>

\* C4: right magic, version 2 and a chunk type other than JSON: the run
\* never reaches the JSON decode (line 35), and ends having printed the
\* chunk-type message as its only output, with exit code 1.
C4_BadChunkType ==
    (FullHeader /\ MagicOK /\ VersionOK /\ ~ChunkTypeOK)
        => /\ pc \notin {"l35", "l36"}
           /\ jsonChunk = NullVal
           /\ Exited => OnlyMessage(CHUNK_TYPE_MSG)

\* A run ended on such a file whose payload is not valid JSON.
C4_Witness ==
    /\ Exited /\ FullHeader /\ MagicOK /\ VersionOK /\ ~ChunkTypeOK
    /\ ~ValidJson(Rest)
    /\ stdout # <<>>

\* C5: with no command-line argument the run prints the usage line and ends
\* with exit code 1 without opening or reading any file: no header field is
\* read and nothing else is printed.
C5_NoArguments ==
    (Len(argv) = 1)
        => /\ pc \in {"l7", "exit"}
           /\ f = "unopened" /\ content = <<>> /\ header = <<>>
           /\ exc = ""
           /\ Exited => (stdout = USAGE_MSG \o <<10>> /\ exitCode = 1)

\* A run without arguments ended while a well-formed model.glb lay on disk.
C5_Witness ==
    Len(argv) = 1 /\ Exited /\ GLB \in DOMAIN disk /\ Len(disk[GLB]) > 20

\* C6: what the run printed as JSON parses again, and serializing the parsed
\* value with indent 2 prints the same text.
C6_PrintIdempotent ==
    (Exited /\ exitCode = 0)
        => /\ JsonDecode(stdout).ok
           /\ JsonDumps(JsonDecode(stdout).val) \o <<10>> = stdout

\* A run printed text that differs from the chunk it read: an object on
\* several lines.
C6_Witness ==
    /\ Exited /\ exitCode = 0 /\ HeaderValid
    /\ Len(stdout) > Len(Rest) + 1
    /\ jsonChunk.t = "dict"

C8_ShortFile ==
    (HasFile /\ Len(InputFile) < 20)
        => /\ pc \notin {"l24", "l27", "l30", "l35", "l36"}
           /\ header = <<>>
           /\ stdout = <<>>
           /\ Exited => (exc = "struct.error" /\ exitCode # 0)

\* A run ended on a file of 4 to 19 bytes whose magic is already wrong.
C8_Witness ==
    /\ Exited /\ HasFile /\ Len(InputFile) < 20 /\ Len(InputFile) >= 4
    /\ ~MagicOK

\* Files that agree with file on bytes [0,8), [12,20) and
\* [20, 20+chunkLength): another totalLength, and other bytes after the
\* chunk when the chunk ends within the file.
OtherTotals(file) == {0, Len(file) + 1}
OtherTails == {<<>>, <<93>>, <<49, 0>>}
Twins(file) ==
    LET n == file[13] + 256 * (file[14] + 256 * (file[15] + 256 * file[16]))
        tails == IF 20 + n <= Len(file)
                 THEN OtherTails
                 ELSE {SubSeq(file, 21, Len(file))}
        chunk == IF 20 + n <= Len(file) THEN SubSeq(file, 21, 20 + n) ELSE <<>>
    IN {SubSeq(file, 1, 8) \o PackU32(tl) \o SubSeq(file, 13, 20) \o chunk \o tail :
           tl \in OtherTotals(file), tail \in tails}

\* C9: the text printed and the exit code are those of a run on any file
\* that agrees on bytes [0,8), [12,20) and [20, 20+chunkLength).
C9_IgnoresTotalAndTail ==
    (Exited /\ FullHeader)
        => \A twin \in Twins(InputFile) :
              /\ Main(twin).stdout = stdout
              /\ Main(twin).exitCode = exitCode

\* A run printed JSON from a chunk followed by another byte, with a
\* totalLength equal to the file size.
C9_Witness ==
    /\ Exited /\ HeaderValid /\ exitCode = 0
    /\ 20 + DeclaredLen < Len(InputFile)
    /\ \E twin \in Twins(InputFile) :
          Len(twin) # Len(InputFile) /\ SubSeq(twin, 9, 12) # SubSeq(InputFile, 9, 12)

C10_WitnessError ==
    /\ Exited /\ HeaderValid /\ DeclaredLen = Len(Rest) + 1
    /\ Len(Rest) > 0 /\ exc = "JSONDecodeError"

====
